---- MODULE Spec2Model ----
(***************************************************************************)
(* Model of the LLM client of src/llm: LLMClient.chat (client.py) with its *)
(* retry loop, session accumulator, audit log and history appends, and     *)
(* ConversationHistory (history.py) with its token-budget truncation.      *)
(*                                                                         *)
(* Specifications: Spec (one caller of chat), SpecConc (two callers),      *)
(* SpecSession (one caller and get_session_summary), SpecHist (add, clear  *)
(* and truncate on a history), SpecStore (save, load and the dates of the  *)
(* metadata under a clock), SpecRead (get_messages and the list it hands   *)
(* out), SpecConfig (model selection and the provider's parameter set).    *)
(*                                                                         *)
(* Money is counted in integer units of 1/1000 of the price unit, so that  *)
(* (tokens / 1000) * price_per_1k is tokens * price.  The file system is   *)
(* taken to be reliable: the audit-log write itself never raises.          *)
(***************************************************************************)
EXTENDS Integers, Sequences, FiniteSets, TLC

\* ------------------------------------------------------------------ bounds
MaxCalls == 1      \* chat invocations started in one behaviour
MaxRetry == 2      \* largest retry_count a ModelConfig carries
MaxMsgs  == 1      \* longest messages list handed to chat
MaxHist  == 3      \* longest history the history operations start from
MaxLimit == 2      \* largest max_tokens handed to truncate_to_token_limit

\* ------------------------------------------------------------ data model
Callers == {"t1", "t2"}

RoleValues == {"system", "user", "assistant"}

None == "None"

Truthy(x) == x # None /\ x # ""

NoPrice == -1

OrZero(x) == IF x = NoPrice THEN 0 ELSE x

ModelConfigs ==
    [retry_count : 0..MaxRetry, input_cost_per_1k : {3}, output_cost_per_1k : {6}]
        \cup {[retry_count |-> 1, input_cost_per_1k |-> NoPrice,
               output_cost_per_1k |-> NoPrice]}

\* A Message object: role, content, the time of its creation and a metadata
\* dict (a set of key/value pairs).
MessageAt(role, content, timestamp, md) ==
    [role |-> role, content |-> content, timestamp |-> timestamp, metadata |-> md]

to_dict(m) == [role |-> m.role, content |-> m.content]

\* What a caller may put in the messages list: Message objects, dicts (with
\* a role of the enumeration, another role, or no role key) and a value of
\* another type.
MessageObjects ==
    {[kind |-> "Message", role |-> r, content |-> "hi"] : r \in {"system", "user"}}

Dicts ==
    {[role |-> r, content |-> "hi"] : r \in {"assistant", "tool"}}
        \cup {[content |-> "hi"]}

Items ==
    MessageObjects \cup {[kind |-> "dict", d |-> d] : d \in Dicts}
        \cup {[kind |-> "other"]}

SeqsUpTo(S, n) == UNION {[1..k -> S] : k \in 0..n}

MessagesArgs ==
    {[kind |-> "str", s |-> "hi"], [kind |-> "other"]}
        \cup {[kind |-> "list", items |-> l] : l \in SeqsUpTo(Items, MaxMsgs)}

SystemPrompts == {None, "", "be brief"}

\* What the provider may do on one invocation.
ProviderErrors == {"timeout", "rate limit"}

ProviderResponses ==
    {[content |-> "yes",
      usage |-> [prompt_tokens |-> 1, completion_tokens |-> 1]],
     [content |-> "no",
      usage |-> [prompt_tokens |-> 2, completion_tokens |-> 1, total_tokens |-> 4]]}

\* The history file the client is constructed on (ConversationHistory
\* loads it when it exists).
StoredHistories ==
    {<<>>, <<MessageAt("user", "hi", 0, {}), MessageAt("assistant", "yes", 0, {})>>}

Get(d, k, default) == IF k \in DOMAIN d THEN d[k] ELSE default

ZeroUsage ==
    [prompt_tokens |-> 0, completion_tokens |-> 0, total_tokens |-> 0,
     prompt_cost |-> 0, completion_cost |-> 0, total_cost |-> 0]

\* _calculate_cost.  The name completion_cost is assigned in the function
\* body, so it is a local there and the oracle call of line 120 raises on
\* the unbound local; the bare except takes the manual computation.
\* (First the try branch of lines 120-126 as it would end had the call
\* returned: the total is the oracle's, which prices tokens by a table of
\* its own.)
CalculateCostOracle(usage_info, cfg) ==
    LET prompt_tokens == Get(usage_info, "prompt_tokens", 0)
        completion_tokens == Get(usage_info, "completion_tokens", 0)
        total_tokens == Get(usage_info, "total_tokens", prompt_tokens + completion_tokens)
    IN  [prompt_tokens |-> prompt_tokens,
         completion_tokens |-> completion_tokens,
         total_tokens |-> total_tokens,
         prompt_cost |-> prompt_tokens * OrZero(cfg.input_cost_per_1k),
         completion_cost |-> completion_tokens * OrZero(cfg.output_cost_per_1k),
         total_cost |-> prompt_tokens * 5 + completion_tokens * 7]

CalculateCost(usage_info, cfg) ==
    LET prompt_tokens == Get(usage_info, "prompt_tokens", 0)
        completion_tokens == Get(usage_info, "completion_tokens", 0)
        total_tokens == Get(usage_info, "total_tokens", prompt_tokens + completion_tokens)
        prompt_cost == prompt_tokens * OrZero(cfg.input_cost_per_1k)
        completion_cost == completion_tokens * OrZero(cfg.output_cost_per_1k)
    IN  [prompt_tokens |-> prompt_tokens,
         completion_tokens |-> completion_tokens,
         total_tokens |-> total_tokens,
         prompt_cost |-> prompt_cost,
         completion_cost |-> completion_cost,
         total_cost |-> prompt_cost + completion_cost]

\* The seven += of the session tracking block, in source order: the
\* accumulator key and the Usage field added to it (1 for call_count).
AccKeys ==
    <<"total_tokens", "input_tokens", "output_tokens",
      "total_cost", "input_cost", "output_cost", "call_count">>

AccIncrement(u, i) ==
    CASE i = 1 -> u.total_tokens
      [] i = 2 -> u.prompt_tokens
      [] i = 3 -> u.completion_tokens
      [] i = 4 -> u.total_cost
      [] i = 5 -> u.prompt_cost
      [] i = 6 -> u.completion_cost
      [] OTHER -> 1

InitialSessionUsage ==
    [total_tokens |-> 0, input_tokens |-> 0, output_tokens |-> 0,
     total_cost |-> 0, input_cost |-> 0, output_cost |-> 0, call_count |-> 0]

\* The normalization at the head of chat: the formatted list, or the
\* ValueError of an unsupported shape.  (First a normalization that raises
\* on no shape: it leaves out the elements that are neither Message nor
\* dict, and takes a value that is no list as a string.)
FormatItem(item) == IF item.kind = "Message" THEN to_dict(item) ELSE item.d

NormalizeLenient(messages, system_prompt) ==
    LET head == IF Truthy(system_prompt)
                THEN <<[role |-> "system", content |-> system_prompt]>>
                ELSE <<>>
    IN  IF messages.kind = "list"
        THEN LET kept == SelectSeq(messages.items,
                                   LAMBDA item : item.kind \in {"Message", "dict"})
             IN  [ok |-> TRUE,
                  msgs |-> head \o [i \in 1..Len(kept) |-> FormatItem(kept[i])]]
        ELSE [ok |-> TRUE, msgs |-> Append(head, [role |-> "user", content |-> "hi"])]

Normalize(messages, system_prompt) ==
    LET head == IF Truthy(system_prompt)
                THEN <<[role |-> "system", content |-> system_prompt]>>
                ELSE <<>>
    IN  CASE messages.kind = "str" ->
               [ok |-> TRUE,
                msgs |-> Append(head, [role |-> "user", content |-> messages.s])]
          [] messages.kind = "list" ->
               IF \A i \in 1..Len(messages.items) :
                      messages.items[i].kind \in {"Message", "dict"}
               THEN [ok |-> TRUE,
                     msgs |-> head \o [i \in 1..Len(messages.items) |->
                                          FormatItem(messages.items[i])]]
               ELSE [ok |-> FALSE, msgs |-> <<>>]
          [] OTHER -> [ok |-> FALSE, msgs |-> <<>>]

\* One turn of the history loop of lines 240-242 on message msg: skip a
\* system message, append a message, or raise.  (First the same loop
\* without the test that leaves system prompts out.)
HistoryVerdictNoFilter(msg) ==
    IF "role" \notin DOMAIN msg THEN "KeyError"
    ELSE IF msg.role \notin RoleValues THEN "ValueError"
    ELSE IF "content" \notin DOMAIN msg THEN "KeyError"
    ELSE "append"

HistoryVerdict(msg) ==
    IF "role" \notin DOMAIN msg THEN "KeyError"
    ELSE IF msg.role = "system" THEN "skip"
    ELSE IF msg.role \notin RoleValues THEN "ValueError"
    ELSE IF "content" \notin DOMAIN msg THEN "KeyError"
    ELSE "append"

\* 2 ** attempt (line 251), and 2 * attempt in its place.
Doubled(n) == 2 * n

RECURSIVE Pow2(_)
Pow2(n) == IF n = 0 THEN 1 ELSE 2 * Pow2(n - 1)

\* if attempt < self.config.retry_count - 1 (line 249), and the same test
\* with the bound off by one.
AttemptsRemainShort(attempt, retry_count) == attempt < retry_count - 2

AttemptsRemain(attempt, retry_count) == attempt < retry_count - 1

\* ----------------------------------------------------------------- state
VARIABLES
    config,          \* LLMClient.config
    session_usage,   \* LLMClient.session_usage
    history,         \* LLMClient.history.messages
    log,             \* the audit records written by _log_raw_io, in order
    pc,              \* per caller: where its chat invocation stands
    frame,           \* per caller: the locals of its chat invocation
    call,            \* per caller: what its current or last invocation did
    histBy,          \* for each history message, the invocation that put it
    started,         \* number of chat invocations started
    okUsages,        \* the Usage of every invocation that returned a Response
    ops,             \* the last history operations, each with its pre-state
    metadata,        \* LLMClient.history.metadata
    disk,            \* the files of the file system, by path
    now,             \* what datetime.now() returns
    view,            \* the list the last get_messages returned to its caller
    completion_params,  \* the parameter set last built for the provider
    summary          \* what the last get_session_summary returned

vars ==
    <<config, session_usage, history, log, pc, frame, call, histBy, started,
      okUsages, ops, metadata, disk, now, view, completion_params, summary>>

extraVars == <<metadata, disk, now, view, completion_params, summary>>

\* Message(role=role, content=content): the timestamp defaults to now, the
\* metadata to an empty dict.
MessageOf(role, content) == MessageAt(role, content, now, {})

clientVars == <<config, session_usage, log, pc, frame, call, histBy, started, okUsages>>

NoFrame ==
    [formatted_messages |-> <<>>, attempt |-> 0, last_error |-> None,
     content |-> None, usage |-> ZeroUsage, i |-> 0, tmp |-> 0,
     appended |-> FALSE]

NoResponse == [content |-> None, usage |-> ZeroUsage, error |-> None]

NoCall ==
    [no |-> 0, outcome |-> "none", messages |-> [kind |-> "none"],
     formatted |-> <<>>, provider |-> <<>>,
     lastFailure |-> None,
     usageBefore |-> InitialSessionUsage, historyBefore |-> <<>>,
     logWrites |-> 0, accUpdates |-> 0, historyBlocks |-> 0,
     slept |-> <<>>, response |-> NoResponse]

\* A path with a directory part and a bare file name.
Paths == {"data/history.json", "history.json"}

NoFile == [exists |-> FALSE]

NoView == [alias |-> FALSE, items |-> <<>>]

NoParams == [model |-> None]

NoSummary == [taken |-> FALSE]

\* ConversationHistory.__init__ without a file: both dates are the time of
\* construction.  Nothing is on disk, nothing was returned yet.
InitExtra ==
    /\ metadata = [created_at |-> 0, last_updated |-> 0]
    /\ disk = [p \in Paths |-> NoFile]
    /\ now = 0
    /\ view = NoView
    /\ completion_params = NoParams
    /\ summary = NoSummary

Init ==
    /\ config \in ModelConfigs
    /\ session_usage = InitialSessionUsage
    /\ history \in StoredHistories
    /\ log = <<>>
    /\ pc = [t \in Callers |-> "idle"]
    /\ frame = [t \in Callers |-> NoFrame]
    /\ call = [t \in Callers |-> NoCall]
    /\ histBy = [i \in 1..Len(history) |-> 0]
    /\ started = 0
    /\ okUsages = <<>>
    /\ ops = <<>>
    /\ InitExtra

\* ------------------------------------------------------------------ chat
\* Entry of chat: normalization (lines 160-181); an unsupported shape
\* raises ValueError to the caller at once.  The parameter set of lines
\* 183-205 has no part in what follows here: ChatParams below builds it.
ChatBegin(t, messages, system_prompt) ==
    /\ pc[t] = "idle"
    /\ started' = started + 1
    /\ LET n == Normalize(messages, system_prompt)
           c == [NoCall EXCEPT !.no = started + 1,
                               !.messages = messages,
                               !.usageBefore = session_usage,
                               !.historyBefore = history]
       IN  IF n.ok
           THEN /\ pc' = [pc EXCEPT ![t] = "loop"]
                /\ frame' = [frame EXCEPT ![t] =
                               [NoFrame EXCEPT !.formatted_messages = n.msgs]]
                /\ call' = [call EXCEPT ![t] = [c EXCEPT !.formatted = n.msgs]]
           ELSE /\ pc' = pc
                /\ frame' = [frame EXCEPT ![t] = NoFrame]
                /\ call' = [call EXCEPT ![t] = [c EXCEPT !.outcome = "ValueError"]]
    /\ summary' = NoSummary
    /\ UNCHANGED <<config, session_usage, history, log, histBy, okUsages, ops,
                   metadata, disk, now, view, completion_params>>

\* for attempt in range(retry_count): the next attempt, or the end of the
\* loop, after which chat falls off its end and returns None.
LoopHead(t) ==
    /\ pc[t] = "loop"
    /\ IF frame[t].attempt < config.retry_count
       THEN /\ pc' = [pc EXCEPT ![t] = "call"]
            /\ call' = call
            /\ frame' = frame
       ELSE /\ pc' = [pc EXCEPT ![t] = "idle"]
            /\ call' = [call EXCEPT ![t].outcome = "None"]
            /\ frame' = [frame EXCEPT ![t] = NoFrame]
    /\ UNCHANGED <<config, session_usage, history, log, histBy, started, okUsages, ops, extraVars>>

\* completion(**completion_params) raises (or its response is malformed).
ProviderFails(t, e) ==
    /\ pc[t] = "call"
    /\ pc' = [pc EXCEPT ![t] = "except"]
    /\ frame' = [frame EXCEPT ![t].last_error = e]
    /\ call' = [call EXCEPT ![t].provider = Append(@, "error"),
                            ![t].lastFailure = e]
    /\ UNCHANGED <<config, session_usage, history, log, histBy, started, okUsages, ops, extraVars>>

\* completion returns: content and usage are extracted (lines 212-216).
ProviderReturns(t, response) ==
    /\ pc[t] = "call"
    /\ pc' = [pc EXCEPT ![t] = "acc_read"]
    /\ frame' = [frame EXCEPT ![t].content = response.content,
                              ![t].usage = CalculateCost(response.usage, config),
                              ![t].i = 1,
                              ![t].appended = FALSE]
    /\ call' = [call EXCEPT ![t].provider = Append(@, "ok")]
    /\ UNCHANGED <<config, session_usage, history, log, histBy, started, okUsages, ops, extraVars>>

\* One += of lines 219-225 is a read of the accumulator entry ...
AccRead(t) ==
    /\ pc[t] = "acc_read"
    /\ frame' = [frame EXCEPT ![t].tmp = session_usage[AccKeys[frame[t].i]]]
    /\ pc' = [pc EXCEPT ![t] = "acc_write"]
    /\ UNCHANGED <<config, session_usage, history, log, call, histBy, started,
                   okUsages, ops, extraVars>>

\* ... followed by the store of the sum.
AccWrite(t) ==
    /\ pc[t] = "acc_write"
    /\ session_usage' =
         [session_usage EXCEPT ![AccKeys[frame[t].i]] =
             frame[t].tmp + AccIncrement(frame[t].usage, frame[t].i)]
    /\ IF frame[t].i < Len(AccKeys)
       THEN /\ frame' = [frame EXCEPT ![t].i = @ + 1]
            /\ pc' = [pc EXCEPT ![t] = "acc_read"]
            /\ call' = call
       ELSE /\ frame' = [frame EXCEPT ![t].i = 1]
            /\ pc' = [pc EXCEPT ![t] = "log"]
            /\ call' = [call EXCEPT ![t].accUpdates = @ + 1]
    /\ UNCHANGED <<config, history, log, histBy, started, okUsages, ops, extraVars>>

\* Lines 219-225 run by a caller that no other caller interleaves with: the
\* seven += in one step.
AddUsage(acc, u) ==
    [k \in DOMAIN acc |->
        acc[k] + AccIncrement(u, CHOOSE i \in 1..Len(AccKeys) : AccKeys[i] = k)]

SessionTracking(t) ==
    /\ pc[t] = "acc_read"
    /\ frame[t].i = 1
    /\ session_usage' = AddUsage(session_usage, frame[t].usage)
    /\ call' = [call EXCEPT ![t].accUpdates = @ + 1]
    /\ pc' = [pc EXCEPT ![t] = "log"]
    /\ UNCHANGED <<config, history, log, frame, histBy, started, okUsages, ops, extraVars>>

\* The session id is the second of the client's construction (line 65); the
\* audit file of a record is named after it and the second of the write
\* (lines 105-108), and is opened with 'w': of the records of log written
\* under one name, the file holds the last.
session_id == "20240101_000000"

log_file == session_id \o "_" \o ToString(now) \o ".json"

\* _log_raw_io(formatted_messages, raw_response, usage) of line 237.
LogSuccess(t) ==
    /\ pc[t] = "log"
    /\ log' = Append(log, [call |-> call[t].no, output |-> frame[t].content,
                           error |-> None, usage |-> frame[t].usage,
                           file |-> log_file])
    /\ call' = [call EXCEPT ![t].logWrites = @ + 1]
    /\ pc' = [pc EXCEPT ![t] = "hist"]
    /\ UNCHANGED <<config, session_usage, history, frame, histBy, started,
                   okUsages, ops, extraVars>>

\* One turn of the loop of lines 240-242.
HistoryStep(t) ==
    /\ pc[t] = "hist"
    /\ frame[t].i <= Len(frame[t].formatted_messages)
    /\ LET msg == frame[t].formatted_messages[frame[t].i]
           v == HistoryVerdict(msg)
       IN  CASE v = "skip" ->
                  /\ frame' = [frame EXCEPT ![t].i = @ + 1]
                  /\ UNCHANGED <<history, metadata, histBy, pc, call>>
             [] v = "append" ->
                  /\ history' = Append(history, MessageOf(msg.role, msg.content))
                  /\ metadata' = [metadata EXCEPT !.last_updated = now]
                  /\ histBy' = Append(histBy, call[t].no)
                  /\ frame' = [frame EXCEPT ![t].i = @ + 1, ![t].appended = TRUE]
                  /\ call' = [call EXCEPT ![t].historyBlocks =
                                 IF frame[t].appended THEN @ ELSE @ + 1]
                  /\ pc' = pc
             [] OTHER ->
                  /\ frame' = [frame EXCEPT ![t].last_error = v]
                  /\ pc' = [pc EXCEPT ![t] = "except"]
                  /\ call' = [call EXCEPT ![t].lastFailure = v]
                  /\ UNCHANGED <<history, metadata, histBy>>
    /\ UNCHANGED <<config, session_usage, log, started, okUsages, ops,
                   disk, now, view, completion_params, summary>>

\* Line 243 appends the assistant message; line 245 returns the Response.
HistoryAssistant(t) ==
    /\ pc[t] = "hist"
    /\ frame[t].i > Len(frame[t].formatted_messages)
    /\ history' = Append(history, MessageOf("assistant", frame[t].content))
    /\ metadata' = [metadata EXCEPT !.last_updated = now]
    /\ histBy' = Append(histBy, call[t].no)
    /\ call' = [call EXCEPT
                  ![t].historyBlocks = IF frame[t].appended THEN @ ELSE @ + 1,
                  ![t].outcome = "ok",
                  ![t].response = [content |-> frame[t].content,
                                   usage |-> frame[t].usage, error |-> None]]
    /\ okUsages' = Append(okUsages, frame[t].usage)
    /\ frame' = [frame EXCEPT ![t] = NoFrame]
    /\ pc' = [pc EXCEPT ![t] = "idle"]
    /\ UNCHANGED <<config, session_usage, log, started, ops,
                   disk, now, view, completion_params, summary>>

\* except Exception with attempts remaining: sleep 2 ** attempt, next turn.
Backoff(t) ==
    /\ pc[t] = "except"
    /\ AttemptsRemain(frame[t].attempt, config.retry_count)
    /\ call' = [call EXCEPT ![t].slept = Append(@, Pow2(frame[t].attempt))]
    /\ frame' = [frame EXCEPT ![t].attempt = @ + 1]
    /\ pc' = [pc EXCEPT ![t] = "loop"]
    /\ UNCHANGED <<config, session_usage, history, log, histBy, started, okUsages, ops, extraVars>>

\* except Exception on the final attempt: the error record is logged and
\* RuntimeError is raised (lines 254-266).
FinalFailure(t) ==
    /\ pc[t] = "except"
    /\ ~AttemptsRemain(frame[t].attempt, config.retry_count)
    /\ log' = Append(log, [call |-> call[t].no, output |-> None,
                           error |-> frame[t].last_error, usage |-> ZeroUsage,
                           file |-> log_file])
    /\ call' = [call EXCEPT ![t].logWrites = @ + 1,
                            ![t].outcome = "RuntimeError"]
    /\ frame' = [frame EXCEPT ![t] = NoFrame]
    /\ pc' = [pc EXCEPT ![t] = "idle"]
    /\ UNCHANGED <<config, session_usage, history, histBy, started, okUsages, ops, extraVars>>

\* The steps of an invocation in flight, but for the session tracking.
ChatStep(t) ==
    \/ LoopHead(t)
    \/ \E e \in ProviderErrors : ProviderFails(t, e)
    \/ \E r \in ProviderResponses : ProviderReturns(t, r)
    \/ LogSuccess(t)
    \/ HistoryStep(t)
    \/ HistoryAssistant(t)
    \/ Backoff(t)
    \/ FinalFailure(t)

\* One caller: chat invocations follow one another.
Call ==
    /\ started < MaxCalls
    /\ \E m \in MessagesArgs, s \in SystemPrompts : ChatBegin("t1", m, s)

Next == Call \/ ChatStep("t1") \/ SessionTracking("t1")

Spec == Init /\ [][Next]_vars

\* round(a / b): the quotient rounded to the nearest integer, a tie to the
\* even one.
RoundDiv(a, b) ==
    LET q == a \div b
        r == a % b
    IN  IF 2 * r < b THEN q
        ELSE IF 2 * r > b THEN q + 1
        ELSE IF q % 2 = 0 THEN q ELSE q + 1

\* get_session_summary.  The prices of ModelConfigs are hundredths of the
\* currency unit, so 10 units of cost are one unit of the fourth decimal;
\* the averages of tokens are in hundredths, as round(x, 2) reports them.
get_session_summary(acc) ==
    LET call_count == IF acc.call_count > 1 THEN acc.call_count ELSE 1
    IN  [taken |-> TRUE,
         total_calls |-> acc.call_count,
         total_tokens |-> acc.total_tokens,
         input_tokens |-> acc.input_tokens,
         output_tokens |-> acc.output_tokens,
         total_cost |-> RoundDiv(acc.total_cost, 10),
         input_cost |-> RoundDiv(acc.input_cost, 10),
         output_cost |-> RoundDiv(acc.output_cost, 10),
         average_tokens_per_call |-> RoundDiv(100 * acc.total_tokens, call_count),
         average_input_tokens_per_call |-> RoundDiv(100 * acc.input_tokens, call_count),
         average_output_tokens_per_call |-> RoundDiv(100 * acc.output_tokens, call_count),
         average_cost_per_call |-> RoundDiv(acc.total_cost, 10 * call_count)]

GetSessionSummary ==
    /\ pc["t1"] = "idle"
    /\ summary' = get_session_summary(session_usage)
    /\ UNCHANGED <<config, session_usage, history, log, pc, frame, call, histBy,
                   started, okUsages, ops, metadata, disk, now, view,
                   completion_params>>

\* One caller that also asks for the session summary between its calls.
NextSession == Next \/ GetSessionSummary

SpecSession == Init /\ [][NextSession]_vars

\* Two callers on the same freshly constructed client, one invocation each,
\* their steps interleaved.
InitConc ==
    /\ Init
    /\ config.retry_count >= 1
    /\ config.input_cost_per_1k # NoPrice
    /\ history = <<>>

ConcCall(t) ==
    /\ call[t].no = 0
    /\ ChatBegin(t, [kind |-> "str", s |-> "hi"], None)

\* The steps of caller t (and the same steps under a client that lets no
\* caller move while another one is in its backoff).
ConcStepSerial(t) ==
    /\ \A u \in Callers \ {t} : pc[u] # "except"
    /\ \/ ConcCall(t)
       \/ LoopHead(t)
       \/ ProviderFails(t, "timeout")
       \/ ProviderReturns(t, [content |-> "yes",
                              usage |-> [prompt_tokens |-> 1, completion_tokens |-> 1]])
       \/ AccRead(t)
       \/ AccWrite(t)
       \/ LogSuccess(t)
       \/ HistoryStep(t)
       \/ HistoryAssistant(t)
       \/ Backoff(t)
       \/ FinalFailure(t)

ConcStep(t) ==
    \/ ConcCall(t)
    \/ LoopHead(t)
    \/ ProviderFails(t, "timeout")
    \/ ProviderReturns(t, [content |-> "yes",
                           usage |-> [prompt_tokens |-> 1, completion_tokens |-> 1]])
    \/ AccRead(t)
    \/ AccWrite(t)
    \/ LogSuccess(t)
    \/ HistoryStep(t)
    \/ HistoryAssistant(t)
    \/ Backoff(t)
    \/ FinalFailure(t)

NextConc == \E t \in Callers : ConcStep(t)

SpecConc == InitConc /\ [][NextConc]_vars

\* --------------------------------------------------- ConversationHistory
\* Messages of a history the history operations run on: contents of 2, 4
\* and 8 characters, estimated at 0, 1 and 2 tokens.
HistoryMessages ==
    {MessageAt("system", "abcd", 0, {}),
     MessageAt("user", "ab", 0, {}),
     MessageAt("user", "abcd", 0, {}),
     MessageAt("user", "abcdefgh", 0, {}),
     MessageAt("assistant", "ab", 0, {})}

RECURSIVE TotalChars(_)
TotalChars(msgs) ==
    IF msgs = <<>> THEN 0 ELSE Len(Head(msgs).content) + TotalChars(Tail(msgs))

estimate_tokens(msgs) == TotalChars(msgs) \div 4

MsgTokens(msg) == Len(msg.content) \div 4

RECURSIVE SumMsgTokens(_)
SumMsgTokens(msgs) ==
    IF msgs = <<>> THEN 0 ELSE MsgTokens(Head(msgs)) + SumMsgTokens(Tail(msgs))

IsSystem(msg) == msg.role = "system"

IsOther(msg) == msg.role # "system"

\* list.insert(pos, x), and list.append(x) in its place.
InsertAtEnd(list, pos, x) == Append(list, x)

InsertAt(list, pos, x) == SubSeq(list, 1, pos) \o <<x>> \o SubSeq(list, pos + 1, Len(list))

\* if msg_tokens <= available_tokens (line 154), and the strict test.
FitsStrictly(msg_tokens, available_tokens) == msg_tokens < available_tokens

Fits(msg_tokens, available_tokens) == msg_tokens <= available_tokens

\* The loop of lines 152-158 from message j of other_messages downwards.
RECURSIVE Walk(_, _, _, _, _)
Walk(other_messages, j, new_messages, available_tokens, pos) ==
    IF j = 0 THEN new_messages
    ELSE LET msg == other_messages[j]
             msg_tokens == MsgTokens(msg)
         IN  IF Fits(msg_tokens, available_tokens)
             THEN Walk(other_messages, j - 1, InsertAt(new_messages, pos, msg),
                       available_tokens - msg_tokens, pos)
             ELSE new_messages

truncate_to_token_limit(msgs, max_tokens, keep_system) ==
    IF estimate_tokens(msgs) <= max_tokens THEN msgs
    ELSE LET system_messages == SelectSeq(msgs, IsSystem)
             other_messages == SelectSeq(msgs, IsOther)
             new_messages == IF keep_system THEN system_messages ELSE <<>>
             available_tokens ==
                 IF keep_system THEN max_tokens - SumMsgTokens(system_messages)
                 ELSE max_tokens
             pos == IF keep_system THEN Len(system_messages) ELSE 0
         IN  Walk(other_messages, Len(other_messages), new_messages,
                  available_tokens, pos)

\* The record kept of a history operation: its arguments and the messages
\* it found.  ops holds the last two.
Record(op) == IF Len(ops) < 2 THEN Append(ops, op) ELSE <<ops[2], op>>

\* truncate_to_token_limit ends on the assignment of line 160: the dates of
\* the metadata are not touched.
Truncate(max_tokens, keep_system) ==
    /\ history' = truncate_to_token_limit(history, max_tokens, keep_system)
    /\ ops' = Record([op |-> "truncate", max_tokens |-> max_tokens,
                      keep_system |-> keep_system, before |-> history,
                      at |-> now])
    /\ UNCHANGED <<clientVars, extraVars>>

\* The metadata argument of add_message: absent, or a dict.
NoArg == [given |-> FALSE]

OrEmptyDict(arg) == IF arg.given THEN arg.d ELSE {}

AddMessage(role, content, md) ==
    /\ Len(history) < MaxHist
    /\ history' = Append(history, MessageAt(role, content, now, OrEmptyDict(md)))
    /\ metadata' = [metadata EXCEPT !.last_updated = now]
    /\ ops' = Record([op |-> "add", before |-> history, at |-> now])
    /\ UNCHANGED <<clientVars, disk, now, view, completion_params, summary>>

Clear ==
    /\ history' = <<>>
    /\ metadata' = [metadata EXCEPT !.last_updated = now]
    /\ ops' = Record([op |-> "clear", before |-> history, at |-> now])
    /\ UNCHANGED <<clientVars, disk, now, view, completion_params, summary>>

InitHist ==
    /\ config = [retry_count |-> 1, input_cost_per_1k |-> 3, output_cost_per_1k |-> 6]
    /\ session_usage = InitialSessionUsage
    /\ history \in SeqsUpTo(HistoryMessages, MaxHist)
    /\ log = <<>>
    /\ pc = [t \in Callers |-> "idle"]
    /\ frame = [t \in Callers |-> NoFrame]
    /\ call = [t \in Callers |-> NoCall]
    /\ histBy = [i \in 1..Len(history) |-> 0]
    /\ started = 0
    /\ okUsages = <<>>
    /\ ops = <<>>
    /\ InitExtra

NextHist ==
    \/ \E max_tokens \in 0..MaxLimit, keep_system \in BOOLEAN :
           Truncate(max_tokens, keep_system)
    \/ \E m \in HistoryMessages : AddMessage(m.role, m.content, NoArg)
    \/ Clear

SpecHist == InitHist /\ [][NextHist]_vars

\* ------------------------------------------------------- save and load
MaxStore == 2      \* longest history the save/load operations build
MaxTime  == 1      \* last tick of the clock

\* Values of a metadata dict: a string, a tuple, a list.  json.dump writes
\* a tuple as an array, and json.load reads an array as a list.
JsonOfValue(value) ==
    IF value.type = "tuple" THEN [type |-> "list", v |-> value.v] ELSE value

JsonOfDict(d) == {[key |-> kv.key, value |-> JsonOfValue(kv.value)] : kv \in d}

\* datetime.isoformat() and datetime.fromisoformat().
isoformat(timestamp) == [iso |-> timestamp]

fromisoformat(text) == text.iso

\* Role(value): the member of the enumeration with that value.
RoleOf(value) == CHOOSE r \in RoleValues : r = value

\* The entry save writes for a message, and the Message load builds of it.
MessageData(msg) ==
    [role |-> msg.role, content |-> msg.content,
     timestamp |-> isoformat(msg.timestamp), metadata |-> JsonOfDict(msg.metadata)]

MessageFromData(msg_data) ==
    MessageAt(RoleOf(msg_data.role), msg_data.content,
              fromisoformat(msg_data.timestamp), msg_data.metadata)

FileOf(meta, msgs) ==
    [exists |-> TRUE, metadata |-> meta,
     messages |-> [i \in 1..Len(msgs) |-> MessageData(msgs[i])]]

\* os.path.dirname: what precedes the last slash, empty without a slash.
RECURSIVE LastSlash(_, _)
LastSlash(path, i) ==
    IF i = 0 THEN 0
    ELSE IF SubSeq(path, i, i) = "/" THEN i ELSE LastSlash(path, i - 1)

dirname(path) ==
    LET i == LastSlash(path, Len(path))
    IN  IF i = 0 THEN "" ELSE SubSeq(path, 1, i - 1)

\* save(filepath).  os.makedirs("") raises FileNotFoundError, so a path
\* without a directory part is never written.
Save(path) ==
    /\ IF dirname(path) = ""
       THEN /\ disk' = disk
            /\ ops' = Record([op |-> "save", path |-> path, raised |-> TRUE,
                              before |-> history, meta |-> metadata, at |-> now])
       ELSE /\ disk' = [disk EXCEPT ![path] = FileOf(metadata, history)]
            /\ ops' = Record([op |-> "save", path |-> path, raised |-> FALSE,
                              before |-> history, meta |-> metadata, at |-> now])
    /\ UNCHANGED <<clientVars, history, metadata, now, view, completion_params, summary>>

\* What load leaves in the object: the metadata of the file, and the
\* messages of the file in place of the messages held.
Loaded(file) ==
    [metadata |-> file.metadata,
     messages |-> [i \in 1..Len(file.messages) |-> MessageFromData(file.messages[i])]]

\* load(filepath): open raises on a missing file.
Load(path) ==
    /\ IF disk[path].exists
       THEN /\ metadata' = Loaded(disk[path]).metadata
            /\ history' = Loaded(disk[path]).messages
       ELSE UNCHANGED <<metadata, history>>
    /\ ops' = Record([op |-> "load", path |-> path, raised |-> ~disk[path].exists,
                      before |-> history, meta |-> metadata, at |-> now])
    /\ UNCHANGED <<clientVars, disk, now, view, completion_params, summary>>

\* ConversationHistory(filepath): a fresh object, loaded when the file
\* exists.
Open(path) ==
    /\ IF disk[path].exists
       THEN /\ metadata' = Loaded(disk[path]).metadata
            /\ history' = Loaded(disk[path]).messages
       ELSE /\ metadata' = [created_at |-> now, last_updated |-> now]
            /\ history' = <<>>
    /\ ops' = Record([op |-> "open", path |-> path, raised |-> FALSE,
                      before |-> <<>>, meta |-> metadata, at |-> now])
    /\ UNCHANGED <<clientVars, disk, now, view, completion_params, summary>>

Tick ==
    /\ now < MaxTime
    /\ now' = now + 1
    /\ UNCHANGED <<clientVars, history, ops, metadata, disk, view,
                   completion_params, summary>>

\* What callers hand to add_message.
MetadataArgs ==
    {NoArg,
     [given |-> TRUE, d |-> {[key |-> "source", value |-> [type |-> "str", v |-> "cli"]]}],
     [given |-> TRUE, d |-> {[key |-> "span", value |-> [type |-> "tuple", v |-> <<1, 2>>]]}]}

InitStore ==
    /\ InitHist
    /\ history = <<>>

NextStore ==
    \/ \E md \in MetadataArgs :
           /\ Len(history) < MaxStore
           /\ AddMessage("user", "abcd", md)
    \/ Clear
    \/ \E keep_system \in BOOLEAN : Truncate(0, keep_system)
    \/ \E path \in Paths : Save(path)
    \/ \E path \in Paths : Load(path)
    \/ \E path \in Paths : Open(path)
    \/ Tick

SpecStore == InitStore /\ [][NextStore]_vars

\* ------------------------------------------------------- get_messages
\* The limit argument: absent, or an integer.
NoLimit == [given |-> FALSE]

LimitArgs == {NoLimit} \cup {[given |-> TRUE, n |-> k] : k \in 0..(MaxHist + 1)}

\* list[start:] of Python: a negative start counts from the end, and a
\* start beyond either end is clamped.
SliceFrom(list, start) ==
    LET n == Len(list)
        s == IF start < 0
             THEN (IF n + start < 0 THEN 0 ELSE n + start)
             ELSE (IF start > n THEN n ELSE start)
    IN  SubSeq(list, s + 1, n)

\* get_messages(limit): if limit is true of 0 no more than of None.  The
\* slice is a new list; without it the list returned is self.messages.
get_messages(msgs, limit) ==
    IF limit.given /\ limit.n # 0
    THEN [alias |-> FALSE, items |-> SliceFrom(msgs, 0 - limit.n)]
    ELSE [alias |-> TRUE, items |-> msgs]

GetMessages(limit) ==
    /\ view' = get_messages(history, limit)
    /\ ops' = <<[op |-> "get", limit |-> limit, before |-> history]>>
    /\ UNCHANGED <<clientVars, history, metadata, disk, now, completion_params, summary>>

\* The caller changes the list it was handed to new_items: when that list
\* is self.messages, the history has changed with it.
ViewBecomes(op, new_items) ==
    /\ ops # <<>>
    /\ view' = [view EXCEPT !.items = new_items]
    /\ history' = IF view.alias THEN new_items ELSE history
    /\ ops' = <<[op |-> op, before |-> history]>>
    /\ UNCHANGED <<clientVars, metadata, disk, now, completion_params, summary>>

Reversed(list) == [i \in 1..Len(list) |-> list[Len(list) + 1 - i]]

ViewAppend(msg) ==
    /\ Len(view.items) <= MaxHist
    /\ ViewBecomes("append", Append(view.items, msg))

ViewPop ==
    /\ view.items # <<>>
    /\ ViewBecomes("pop", SubSeq(view.items, 1, Len(view.items) - 1))

ViewReverse == ViewBecomes("reverse", Reversed(view.items))

NextRead ==
    \/ \E limit \in LimitArgs : GetMessages(limit)
    \/ ViewAppend(MessageAt("user", "ab", 0, {}))
    \/ ViewPop
    \/ ViewReverse

SpecRead == InitHist /\ [][NextRead]_vars

\* ------------------------------------- model selection and parameter set
\* ModelConfig(name, provider, ...) with the defaults of the dataclass.
\* Parameter values are written as strings; a price is in millionths of the
\* currency unit per 1000 tokens.
ModelConfig(name, provider, max_tokens, input_cost_per_1k, output_cost_per_1k) ==
    [name |-> name, provider |-> provider, max_tokens |-> max_tokens,
     temperature |-> "0.7", top_p |-> "1.0", stream |-> FALSE, timeout |-> "60",
     retry_count |-> 3, api_base |-> None, api_key |-> None,
     input_cost_per_1k |-> input_cost_per_1k,
     output_cost_per_1k |-> output_cost_per_1k]

MODEL_PRESETS ==
    ("gpt-4" :> ModelConfig("gpt-4", "openai", None, 30000, 60000))
    @@ ("gpt-4-turbo" :> ModelConfig("gpt-4-turbo-preview", "openai", None, 10000, 30000))
    @@ ("gpt-3.5-turbo" :> ModelConfig("gpt-3.5-turbo", "openai", None, 500, 1500))
    @@ ("claude-3-opus" :>
            ModelConfig("claude-3-opus-20240229", "anthropic", "4096", 15000, 75000))
    @@ ("claude-3-sonnet" :>
            ModelConfig("claude-3-sonnet-20240229", "anthropic", "4096", 3000, 15000))
    @@ ("claude-3-haiku" :>
            ModelConfig("claude-3-haiku-20240307", "anthropic", "4096", 250, 1250))
    @@ ("gemini-pro" :> ModelConfig("gemini-pro", "google", None, 125, 375))
    @@ ("deepseek-coder" :> ModelConfig("deepseek-coder", "deepseek", None, 100, 200))

\* Configurations a caller may build itself and hand to the constructor.
CustomConfigs ==
    {ModelConfig("3-opus", "anthropic", "1024", NoPrice, NoPrice),
     ModelConfig("gemini/gemini-pro", "google", None, NoPrice, NoPrice),
     ModelConfig("deepseek/deepseek-coder", "deepseek", None, NoPrice, NoPrice),
     [ModelConfig("llama3", "local", None, NoPrice, NoPrice)
         EXCEPT !.api_base = "http://config", !.api_key = "sk-config"]}

\* str.startswith.
StartsWith(text, prefix) ==
    Len(text) >= Len(prefix) /\ SubSeq(text, 1, Len(prefix)) = prefix

\* f"{prefix}{name}" if not name.startswith(prefix) else name, and the
\* same without the test.
PrefixedAlways(name, prefix) == prefix \o name

Prefixed(name, prefix) == IF StartsWith(name, prefix) THEN name ELSE prefix \o name

litellm_model_name(cfg) ==
    CASE cfg.provider = "openai" -> cfg.name
      [] cfg.provider = "anthropic" -> Prefixed(cfg.name, "claude-")
      [] cfg.provider = "google" -> Prefixed(cfg.name, "gemini/")
      [] cfg.provider = "deepseek" -> Prefixed(cfg.name, "deepseek/")
      [] OTHER -> cfg.name

\* The constructor's config argument: absent, or a ModelConfig.
NoConfig == [given |-> FALSE]

\* LLMClient(model, config): the configuration chosen at lines 50-57.
\* default_model is the value of the environment variable DEFAULT_MODEL
\* (None when it is not set).
ChosenConfig(model, cfg, default_model) ==
    IF cfg.given THEN cfg.c
    ELSE IF Truthy(model) /\ model \in DOMAIN MODEL_PRESETS THEN MODEL_PRESETS[model]
    ELSE LET d == IF default_model = None THEN "gemini-pro" ELSE default_model
         IN  IF d \in DOMAIN MODEL_PRESETS
             THEN MODEL_PRESETS[d] ELSE MODEL_PRESETS["gemini-pro"]

Construct(model, cfg, default_model) ==
    /\ config' = ChosenConfig(model, cfg, default_model)
    /\ completion_params' = NoParams
    /\ ops' = <<[op |-> "construct", model |-> model, cfg |-> cfg,
                 raised |-> FALSE, available |-> {}, before |-> config]>>
    /\ UNCHANGED <<session_usage, history, log, pc, frame, call, histBy, started,
                   okUsages, metadata, disk, now, view, summary>>

\* switch_model(model): the preset, or ValueError with the known keys.
\* (First a switch that starts the session tracking afresh, as the
\* constructor does.)
SwitchModelReset(model) ==
    /\ config' = IF model \in DOMAIN MODEL_PRESETS THEN MODEL_PRESETS[model] ELSE config
    /\ session_usage' = InitialSessionUsage
    /\ ops' = <<[op |-> "switch", model |-> model, cfg |-> NoConfig,
                 raised |-> model \notin DOMAIN MODEL_PRESETS,
                 available |-> IF model \in DOMAIN MODEL_PRESETS
                               THEN {} ELSE DOMAIN MODEL_PRESETS,
                 before |-> config]>>
    /\ UNCHANGED <<history, log, pc, frame, call, histBy, started,
                   okUsages, metadata, disk, now, view, completion_params, summary>>

SwitchModel(model) ==
    /\ config' = IF model \in DOMAIN MODEL_PRESETS THEN MODEL_PRESETS[model] ELSE config
    /\ ops' = <<[op |-> "switch", model |-> model, cfg |-> NoConfig,
                 raised |-> model \notin DOMAIN MODEL_PRESETS,
                 available |-> IF model \in DOMAIN MODEL_PRESETS
                               THEN {} ELSE DOMAIN MODEL_PRESETS,
                 before |-> config]>>
    /\ UNCHANGED <<session_usage, history, log, pc, frame, call, histBy, started,
                   okUsages, metadata, disk, now, view, completion_params, summary>>

\* _get_api_key: the key of the configuration, else the environment
\* variable of the provider (env_key, None when it is not set), if the
\* provider has one.
get_api_key(cfg, env_key) ==
    IF Truthy(cfg.api_key) THEN cfg.api_key
    ELSE IF cfg.provider \in {"openai", "anthropic", "google", "deepseek"}
         THEN env_key ELSE None

\* {**a, **b}.
Merged(a, b) ==
    [k \in DOMAIN a \cup DOMAIN b |-> IF k \in DOMAIN b THEN b[k] ELSE a[k]]

\* dict[key] = value if the value is true.
WithIfTrue(d, key, value) ==
    IF Truthy(value) THEN Merged(d, key :> value) ELSE d

\* The parameter set of lines 184-205: the keyword arguments are merged
\* into the literal, and max_tokens, api_key and api_base are assigned
\* after it.
CompletionParams(cfg, formatted_messages, kwargs, env_key) ==
    LET literal ==
            [model |-> litellm_model_name(cfg), messages |-> formatted_messages,
             temperature |-> cfg.temperature, top_p |-> cfg.top_p,
             stream |-> "False", timeout |-> cfg.timeout]
        p1 == Merged(literal, kwargs)
        p2 == WithIfTrue(p1, "max_tokens", cfg.max_tokens)
        p3 == WithIfTrue(p2, "api_key", get_api_key(cfg, env_key))
    IN  WithIfTrue(p3, "api_base", cfg.api_base)

MaxKwargs == 2     \* most keyword arguments handed to one chat call

\* Keyword arguments of a chat call: any of these keys, each with a value
\* no configuration carries.
OverrideValues ==
    [temperature |-> "0.1", top_p |-> "0.5", timeout |-> "5", max_tokens |-> "100",
     api_key |-> "sk-call", api_base |-> "http://call", stream |-> "True"]

KwargsSets ==
    {[k \in K |-> OverrideValues[k]] :
        K \in {S \in SUBSET DOMAIN OverrideValues : Cardinality(S) <= MaxKwargs}}

\* chat("hi", **kwargs) up to line 205.
ChatParams(kwargs, env_key) ==
    /\ completion_params' =
         CompletionParams(config, <<[role |-> "user", content |-> "hi"]>>,
                          kwargs, env_key)
    /\ ops' = <<[op |-> "params", kwargs |-> kwargs, env_key |-> env_key,
                 before |-> config]>>
    /\ UNCHANGED <<clientVars, history, metadata, disk, now, view, summary>>

InitConfig ==
    /\ config = ChosenConfig(None, NoConfig, None)
    /\ session_usage = InitialSessionUsage
    /\ history = <<>>
    /\ log = <<>>
    /\ pc = [t \in Callers |-> "idle"]
    /\ frame = [t \in Callers |-> NoFrame]
    /\ call = [t \in Callers |-> NoCall]
    /\ histBy = <<>>
    /\ started = 0
    /\ okUsages = <<>>
    /\ ops = <<>>
    /\ InitExtra

ModelArgs == {None, "gpt-4", "claude-3-opus", "deepseek-coder", "invalid-model-name"}

NextConfig ==
    \/ \E model \in ModelArgs, default_model \in {None, "gpt-4", "no-such-model"} :
           Construct(model, NoConfig, default_model)
    \/ \E model \in ModelArgs, c \in CustomConfigs :
           Construct(model, [given |-> TRUE, c |-> c], None)
    \/ \E model \in ModelArgs : SwitchModel(model)
    \/ \E kwargs \in KwargsSets, env_key \in {None, "sk-env"} :
           ChatParams(kwargs, env_key)

SpecConfig == InitConfig /\ [][NextConfig]_vars

\* ------------------------------------------------- the life of a client
\* One caller of chat("hi") who, between its calls, switches the model,
\* clears and saves the history and asks for the summary.
LifeCall ==
    /\ started < MaxCalls
    /\ ChatBegin("t1", [kind |-> "str", s |-> "hi"], None)

LifeStep ==
    \/ LoopHead("t1")
    \/ ProviderFails("t1", "timeout")
    \/ ProviderReturns("t1", [content |-> "yes",
                              usage |-> [prompt_tokens |-> 1, completion_tokens |-> 1]])
    \/ SessionTracking("t1")
    \/ LogSuccess("t1")
    \/ HistoryStep("t1")
    \/ HistoryAssistant("t1")
    \/ Backoff("t1")
    \/ FinalFailure("t1")

NextLife ==
    \/ LifeCall
    \/ LifeStep
    \/ pc["t1"] = "idle" /\ \E model \in {"gpt-4", "invalid-model-name"} : SwitchModel(model)
    \/ pc["t1"] = "idle" /\ Clear
    \/ pc["t1"] = "idle" /\ \E path \in Paths : Save(path)
    \/ GetSessionSummary

SpecLife == InitConfig /\ [][NextLife]_vars

\* ------------------------------------------------------ _calculate_cost
\* _calculate_cost on its own: the token counts of a provider response, the
\* client's configuration, and what litellm's completion_cost would answer
\* if it were asked (a total of its own, or an exception).
MaxTokens == 3

UsageInfos ==
    [prompt_tokens : 0..MaxTokens, completion_tokens : 0..MaxTokens]
        \cup [prompt_tokens : 0..MaxTokens, completion_tokens : 0..MaxTokens,
              total_tokens : {MaxTokens}]

Oracles ==
    {[ok |-> FALSE]}
        \cup {[ok |-> TRUE, total_cost |-> v] : v \in {0, 5 * MaxTokens}}

CalculateCostCall(usage_info, oracle) ==
    /\ ops' = <<[op |-> "cost", usage_info |-> usage_info, oracle |-> oracle,
                 result |-> CalculateCost(usage_info, config)]>>
    /\ UNCHANGED <<clientVars, history, extraVars>>

InitCost == Init /\ history = <<>>

NextCost == \E usage_info \in UsageInfos, oracle \in Oracles :
                CalculateCostCall(usage_info, oracle)

SpecCost == InitCost /\ [][NextCost]_vars

\* ------------------------------------------------------ a conversation
\* The conversation of demo_conversation: a first call and a follow-up
\* call on the same client, each with a plain string.
FollowUpCall ==
    /\ started < MaxCalls + 1
    /\ \E s \in {"hi", "again"} : ChatBegin("t1", [kind |-> "str", s |-> s], None)

NextFollowUp == FollowUpCall \/ LifeStep

SpecFollowUp == InitConfig /\ [][NextFollowUp]_vars

\* The same conversation with the clock running: the seconds pass, or do
\* not, between the steps of the calls.
NextAudit == FollowUpCall \/ LifeStep \/ Tick

SpecAudit == InitConfig /\ [][NextAudit]_vars

\* ================================================================ claims
Caller == call["t1"]

Finished(c) == c.no > 0 /\ c.outcome \notin {"none", "ValueError"}

RECURSIVE SumUsages(_)
SumUsages(us) ==
    IF us = <<>> THEN InitialSessionUsage
    ELSE LET r == SumUsages(Tail(us))
             u == Head(us)
         IN  [total_tokens |-> r.total_tokens + u.total_tokens,
              input_tokens |-> r.input_tokens + u.prompt_tokens,
              output_tokens |-> r.output_tokens + u.completion_tokens,
              total_cost |-> r.total_cost + u.total_cost,
              input_cost |-> r.input_cost + u.prompt_cost,
              output_cost |-> r.output_cost + u.completion_cost,
              call_count |-> r.call_count + 1]

\* C1: between chat invocations of one caller, the session accumulator is
\* the sum of the usages of the invocations that returned a Response, and
\* call_count is their number.
C1_AccumulatorIsSumOfReturnedCalls ==
    pc["t1"] = "idle" => session_usage = SumUsages(okUsages)

\* C2: after a chat invocation that ended in the terminal error, every field
\* of the session accumulator has the value it had when the invocation began.
C2_FailedCallLeavesAccumulator ==
    (pc["t1"] = "idle" /\ Caller.outcome = "RuntimeError")
        => session_usage = Caller.usageBefore

AllFailed(c) == \A i \in 1..Len(c.provider) : c.provider[i] = "error"

\* C3: with retry_count >= 1, an invocation all of whose provider attempts
\* fail invokes the provider exactly retry_count times, writes no audit
\* record before the last failure and then exactly one, carrying the last
\* failure's message and zeroed usage, and ends in the terminal error.
C3_AllAttemptsFail ==
    (config.retry_count >= 1 /\ Caller.no > 0 /\ AllFailed(Caller))
        => /\ Len(Caller.provider) <= config.retry_count
           /\ Caller.outcome \in {"none", "ValueError", "RuntimeError"}
           /\ Caller.outcome = "none" => Caller.logWrites = 0
           /\ Caller.outcome = "RuntimeError" =>
                 /\ Len(Caller.provider) = config.retry_count
                 /\ Caller.logWrites = 1
                 /\ log # <<>>
                 /\ log[Len(log)] =
                      [call |-> Caller.no, output |-> None,
                       error |-> Caller.lastFailure, usage |-> ZeroUsage,
                       file |-> log_file]

C3_Witness ==
    /\ config.retry_count >= 2
    /\ pc["t1"] = "idle"
    /\ Caller.outcome = "RuntimeError"
    /\ AllFailed(Caller)
    /\ Len(Caller.provider) = config.retry_count
    /\ Caller.lastFailure = "rate limit"

\* C4: with retry_count >= 1, the provider is not invoked again once it has
\* returned, and an invocation whose provider returned after f failures
\* returns the Response with error unset, having written one audit record.
C4_ReturnsAfterFirstSuccess ==
    config.retry_count >= 1 =>
        /\ \A i \in 1..(Len(Caller.provider) - 1) : Caller.provider[i] = "error"
        /\ (pc["t1"] = "idle" /\ Finished(Caller) /\ ~AllFailed(Caller))
              => /\ Caller.outcome = "ok"
                 /\ Caller.response.error = None
                 /\ Len(Caller.provider) = Len(Caller.slept) + 1
                 /\ Caller.logWrites = 1

\* C5: one chat invocation writes at most one audit record, appends at most
\* one block to History and updates the accumulator at most once, and an
\* invocation that updated the accumulator returns its Response.
C5_SideEffectsAtMostOnce ==
    /\ Caller.logWrites <= 1
    /\ Caller.historyBlocks <= 1
    /\ Caller.accUpdates <= 1
    /\ (pc["t1"] = "idle" /\ Caller.accUpdates > 0) => Caller.outcome = "ok"

NonSystem(msgs) == SelectSeq(msgs, LAMBDA m : m.role # "system")

\* C6: after a chat invocation that returned, History is what it was before
\* followed by the outbound messages that are not system messages, in their
\* order, and one assistant message holding the Response content; at no
\* point of an invocation is a system message among those it has appended.
C6_HistoryAfterSuccess ==
    Caller.no > 0 =>
        /\ Len(history) >= Len(Caller.historyBefore)
        /\ \A i \in (Len(Caller.historyBefore) + 1)..Len(history) :
              history[i].role # "system"
        /\ (pc["t1"] = "idle" /\ Caller.outcome = "ok") =>
              history = Caller.historyBefore
                            \o [i \in 1..Len(NonSystem(Caller.formatted)) |->
                                   MessageOf(NonSystem(Caller.formatted)[i].role,
                                             NonSystem(Caller.formatted)[i].content)]
                            \o <<MessageOf("assistant", Caller.response.content)>>

C6_Witness ==
    /\ pc["t1"] = "idle"
    /\ Caller.outcome = "ok"
    /\ Caller.historyBefore # <<>>
    /\ Len(Caller.formatted) >= 2
    /\ Caller.formatted[1].role = "system"
    /\ Caller.response.content = "no"

BothReturned ==
    \A t \in Callers : pc[t] = "idle" /\ call[t].outcome = "ok"

\* C7: when the concurrent invocations have all returned a Response, the
\* accumulator is the sum of their usages and call_count is their number.
C7_ConcurrentUpdatesAllCounted ==
    BothReturned => session_usage = SumUsages(okUsages)

\* C8: when two concurrent invocations have both returned a Response, the
\* messages each appended to History lie next to one another.
C8_HistoryBlocksContiguous ==
    BothReturned =>
        \A i, j, k \in 1..Len(histBy) :
            (i < j /\ j < k /\ histBy[i] = histBy[k]) => histBy[j] = histBy[i]

LastOp == ops[Len(ops)]

\* C9: a second truncate_to_token_limit(T, keep_system = true) right after
\* a first one with the same T leaves the messages as the first left them.
C9_TruncateTwiceIsNoOp ==
    (/\ Len(ops) = 2
     /\ ops[1].op = "truncate" /\ ops[2].op = "truncate"
     /\ ops[1].keep_system /\ ops[2].keep_system
     /\ ops[1].max_tokens = ops[2].max_tokens)
        => history = ops[2].before

C9_Witness ==
    /\ Len(ops) = 2
    /\ ops[1].op = "truncate" /\ ops[2].op = "truncate"
    /\ ops[1].keep_system /\ ops[2].keep_system
    /\ ops[1].max_tokens = ops[2].max_tokens
    /\ ops[1].before # ops[2].before
    /\ estimate_tokens(ops[2].before) > ops[2].max_tokens
    /\ Len(history) >= 2

\* What the claim says of truncate_to_token_limit(T, keep) on messages b,
\* with result h: the system messages (if kept), then the others from
\* position k + 1 on, where every kept message fitted the budget left by
\* the newer ones and message k, if there is one, did not.
Budget(b, T, keep) ==
    IF keep THEN T - SumMsgTokens(SelectSeq(b, IsSystem)) ELSE T

LeftFor(b, T, keep, j) ==
    LET others == SelectSeq(b, IsOther)
    IN  Budget(b, T, keep) - SumMsgTokens(SubSeq(others, j + 1, Len(others)))

NewestFirstSuffix(b, T, keep, h) ==
    LET others == SelectSeq(b, IsOther)
        kept == IF keep THEN SelectSeq(b, IsSystem) ELSE <<>>
    IN  \E k \in 0..Len(others) :
           /\ h = kept \o SubSeq(others, k + 1, Len(others))
           /\ \A j \in (k + 1)..Len(others) :
                 MsgTokens(others[j]) <= LeftFor(b, T, keep, j)
           /\ k > 0 => MsgTokens(others[k]) > LeftFor(b, T, keep, k)

\* C10: truncate_to_token_limit leaves the messages alone when their
\* estimate is within max_tokens, and otherwise leaves the system messages
\* (if kept) followed by the newest non-system messages that fit the
\* budget, stopping at the first that does not.
C10_TruncateKeepsNewestSuffix ==
    (ops # <<>> /\ LastOp.op = "truncate") =>
        IF estimate_tokens(LastOp.before) <= LastOp.max_tokens
        THEN history = LastOp.before
        ELSE NewestFirstSuffix(LastOp.before, LastOp.max_tokens,
                               LastOp.keep_system, history)

\* A truncation that kept the system message and stopped at once, at the
\* newest message, so dropping an older message that would have fitted.
C10_Witness ==
    /\ ops # <<>>
    /\ LastOp.op = "truncate"
    /\ LastOp.keep_system
    /\ estimate_tokens(LastOp.before) > LastOp.max_tokens
    /\ LET others == SelectSeq(LastOp.before, IsOther)
       IN  /\ Len(others) = 2
           /\ history = SelectSeq(LastOp.before, IsSystem)
           /\ history # <<>>
           /\ MsgTokens(others[1]) <=
                 Budget(LastOp.before, LastOp.max_tokens, TRUE)

\* C11: a history saved to a path and then loaded from that path, into the
\* same object or into a fresh one, has the messages (role, content,
\* timestamp and metadata of each, in order) and the created_at it had when
\* it was saved.
C11_SaveLoadRoundTrip ==
    (/\ Len(ops) = 2
     /\ ops[1].op = "save"
     /\ ops[2].op \in {"load", "open"}
     /\ ops[2].path = ops[1].path)
        => /\ history = ops[1].before
           /\ metadata.created_at = ops[1].meta.created_at

\* C12: after add_message, after clear, after a truncate_to_token_limit that
\* removed messages and after a load, last_updated is the time of that
\* operation.
C12_LastUpdatedRefreshed ==
    (/\ ops # <<>>
     /\ \/ LastOp.op \in {"add", "clear"}
        \/ LastOp.op = "truncate" /\ history # LastOp.before
        \/ LastOp.op = "load" /\ ~LastOp.raised)
        => metadata.last_updated = LastOp.at

\* C13: get_messages(limit) returns the most recent min(limit, n) of the n
\* messages in their order, for every limit from 0 upwards, and all n
\* messages in their order without a limit.
C13_GetMessagesMostRecent ==
    (ops # <<>> /\ LastOp.op = "get") =>
        LET n == Len(LastOp.before)
            k == IF ~LastOp.limit.given THEN n
                 ELSE IF LastOp.limit.n < n THEN LastOp.limit.n ELSE n
        IN  view.items = [i \in 1..k |-> LastOp.before[n - k + i]]

\* C14: an append to, a removal from or a reordering of the list
\* get_messages returned leaves the messages of the history as they were.
C14_ReturnedListIsDetached ==
    (ops # <<>> /\ LastOp.op \in {"append", "pop", "reverse"}) =>
        history = LastOp.before

\* C15: in the parameter set built for the provider, a parameter that both
\* the keyword arguments of the call and the active configuration supply
\* (temperature, top_p, timeout, max_tokens, api_key, api_base) has the
\* value of the keyword argument.
C15_OverridesWin ==
    (ops # <<>> /\ LastOp.op = "params") =>
        LET supplied ==
                {"temperature", "top_p", "timeout"}
                    \cup (IF Truthy(config.max_tokens) THEN {"max_tokens"} ELSE {})
                    \cup (IF Truthy(get_api_key(config, LastOp.env_key))
                          THEN {"api_key"} ELSE {})
                    \cup (IF Truthy(config.api_base) THEN {"api_base"} ELSE {})
        IN  \A k \in DOMAIN LastOp.kwargs \cap supplied :
                completion_params[k] = LastOp.kwargs[k]

\* C16: the selection of a model identifier that is no key of the presets,
\* by the constructor's model argument or by switch_model, raises an error
\* that lists the keys of the presets, and leaves the configuration as it
\* was.
C16_UnknownModelRejected ==
    (/\ ops # <<>>
     /\ LastOp.op \in {"construct", "switch"}
     /\ ~LastOp.cfg.given
     /\ LastOp.model # None
     /\ LastOp.model \notin DOMAIN MODEL_PRESETS)
        => /\ LastOp.raised
           /\ LastOp.available = DOMAIN MODEL_PRESETS
           /\ config = LastOp.before

\* C18: the model name sent to the provider is the configured name for
\* openai and unknown providers; for anthropic, google and deepseek it is
\* the name when the name starts with "claude-", "gemini/", "deepseek/",
\* and that prefix followed by the name otherwise.  Deriving it again from
\* the derived name gives the derived name.
C18_ModelNameDerivation ==
    (ops # <<>> /\ LastOp.op = "params") =>
        LET name == config.name
            derived == completion_params.model
            prefixes == [anthropic |-> "claude-", google |-> "gemini/",
                         deepseek |-> "deepseek/"]
        IN  /\ config.provider \notin DOMAIN prefixes => derived = name
            /\ config.provider \in DOMAIN prefixes =>
                  LET prefix == prefixes[config.provider]
                  IN  /\ StartsWith(name, prefix) => derived = name
                      /\ ~StartsWith(name, prefix) => derived = prefix \o name
            /\ litellm_model_name([config EXCEPT !.name = derived]) = derived

C18_Witness ==
    /\ ops # <<>>
    /\ LastOp.op = "params"
    /\ config.provider = "google"
    /\ config.name = "gemini-pro"
    /\ completion_params.model = "gemini/gemini-pro"

\* C17: a chat call whose messages argument is neither a string nor a list,
\* or is a list with an element that is neither a Message nor a dict,
\* raises ValueError without any provider invocation, without a backoff
\* sleep, and with the session accumulator, the history and the audit log
\* as they were before the call.
C17_InvalidInputRejected ==
    (/\ Caller.no > 0
     /\ \/ Caller.messages.kind \notin {"str", "list"}
        \/ /\ Caller.messages.kind = "list"
           /\ \E i \in 1..Len(Caller.messages.items) :
                  Caller.messages.items[i].kind \notin {"Message", "dict"})
        => /\ Caller.outcome = "ValueError"
           /\ pc["t1"] = "idle"
           /\ Caller.provider = <<>>
           /\ Caller.slept = <<>>
           /\ session_usage = Caller.usageBefore
           /\ history = Caller.historyBefore
           /\ Caller.logWrites = 0

C17_Witness ==
    /\ Caller.no > 0
    /\ Caller.messages.kind = "list"
    /\ Len(Caller.messages.items) > 0
    /\ Caller.messages.items[1].kind = "other"
    /\ Caller.outcome = "ValueError"

C20_SummaryCountsSuccessfulCalls ==
    summary.taken =>
        /\ summary.total_calls = Len(okUsages)
        /\ Len(okUsages) = 0 =>
              /\ summary.average_tokens_per_call = 0
              /\ summary.average_input_tokens_per_call = 0
              /\ summary.average_output_tokens_per_call = 0
              /\ summary.average_cost_per_call = 0

\* C21: no step reduces a field of the session accumulator, and the steps
\* of switch_model (with a known or an unknown model), clear_history,
\* save_history and get_session_summary leave every field of it as it was.
C21_AccumulatorNeverReset ==
    [][/\ \A k \in DOMAIN session_usage : session_usage'[k] >= session_usage[k]
       /\ (ops' # ops \/ (summary'.taken /\ summary' # summary))
             => session_usage' = session_usage]_vars

C21_Witness ==
    /\ session_usage.call_count > 0
    /\ summary.taken
    /\ history = <<>>
    /\ Len(ops) = 2
    /\ ops[1].op = "switch"
    /\ ops[2].op = "clear"

\* C22: the sleeps of one chat call are 1, 2, 4, ... time units in that
\* order, one after every failed attempt but the last of the retry budget:
\* a call that returned a Response slept once per attempt before its
\* successful one, and a call that raised the terminal error slept once
\* less than it made attempts.
C22_BackoffDelays ==
    Caller.no > 0 =>
        /\ \A k \in 1..Len(Caller.slept) :
              Caller.slept[k] = IF k = 1 THEN 1 ELSE 2 * Caller.slept[k - 1]
        /\ Len(Caller.slept) <= Len(Caller.provider)
        /\ Caller.outcome \in {"ok", "RuntimeError"} =>
              Len(Caller.slept) = Len(Caller.provider) - 1

C22_Witness ==
    /\ Caller.outcome = "ok"
    /\ Caller.provider = <<"error", "error", "ok">>
    /\ Caller.slept = <<1, 2>>

\* C23: a chat call whose list holds a dict without a role entry, without a
\* content entry, or with a role that is none of system, user, assistant
\* never reaches the provider and never sleeps, and ends with the
\* validation error (under a configuration that allows an attempt).
C23_MalformedPairRejected ==
    (/\ Caller.no > 0
     /\ config.retry_count > 0
     /\ Caller.messages.kind = "list"
     /\ \E i \in 1..Len(Caller.messages.items) :
           LET item == Caller.messages.items[i]
           IN  /\ item.kind = "dict"
               /\ \/ "role" \notin DOMAIN item.d
                  \/ "content" \notin DOMAIN item.d
                  \/ item.d.role \notin {"system", "user", "assistant"})
        => /\ Caller.provider = <<>>
           /\ Caller.slept = <<>>
           /\ pc["t1"] = "idle" => Caller.outcome = "ValueError"

\* C24: the parameter set built for the provider has stream false, whatever
\* the keyword arguments of the call.
C24_StreamAlwaysFalse ==
    (ops # <<>> /\ LastOp.op = "params") => completion_params.stream = "False"

\* C25: after truncate_to_token_limit(max_tokens, keep_system = false), and
\* after truncate_to_token_limit(max_tokens, keep_system = true) on a
\* history whose system messages alone are estimated within max_tokens, the
\* estimate of the history is at most max_tokens.
C25_TruncatedHistoryFits ==
    (/\ ops # <<>>
     /\ LastOp.op = "truncate"
     /\ \/ ~LastOp.keep_system
        \/ estimate_tokens(SelectSeq(LastOp.before, LAMBDA m : m.role = "system"))
              <= LastOp.max_tokens)
        => estimate_tokens(history) <= LastOp.max_tokens

\* C26: the message list a chat call sends to the provider holds the
\* messages recorded in the client's history by the earlier calls, in
\* their order, followed by the messages of the call itself.
C26_FollowUpSendsHistory ==
    Caller.no > 0 =>
        LET h == Caller.historyBefore
        IN  /\ Len(Caller.formatted) > Len(h)
            /\ \A i \in 1..Len(h) : Caller.formatted[i] = to_dict(h[i])

\* C27: while one chat call is in its backoff, the other caller of the same
\* client is never held up: whatever it has left to do (begin its call,
\* invoke the provider, update the accumulator, write the history, return)
\* can be done at once.
C27_BackoffBlocksNobody ==
    \A t \in Callers, u \in Callers :
        (/\ t # u
         /\ pc[t] = "except"
         /\ AttemptsRemain(frame[t].attempt, config.retry_count)
         /\ (pc[u] # "idle" \/ call[u].no = 0))
            => ENABLED ConcStep(u)

C27_Witness ==
    /\ pc["t1"] = "except"
    /\ AttemptsRemain(frame["t1"].attempt, config.retry_count)
    /\ call["t1"].slept = <<>>
    /\ call["t2"].no = 2
    /\ call["t2"].outcome = "ok"
    /\ session_usage.call_count = 1
    /\ Len(history) = 2

\* C28: the Usage computed for a provider response carries the locally
\* computed prompt_cost and completion_cost; its total_cost is the pricing
\* oracle's answer when the oracle answers, and prompt_cost +
\* completion_cost when the oracle fails.
C28_OracleTotalPreferred ==
    (ops # <<>> /\ LastOp.op = "cost") =>
        LET u == LastOp.result
        IN  /\ u.prompt_cost = u.prompt_tokens * OrZero(config.input_cost_per_1k)
            /\ u.completion_cost = u.completion_tokens * OrZero(config.output_cost_per_1k)
            /\ u.total_cost = IF LastOp.oracle.ok
                              THEN LastOp.oracle.total_cost
                              ELSE u.prompt_cost + u.completion_cost

\* C29: no audit record of a call is overwritten by the record of another
\* call of the session: two records of different calls are never written
\* to the same audit file.
C29_AuditRecordsKept ==
    \A i \in 1..Len(log), j \in 1..Len(log) :
        (i < j /\ log[i].file = log[j].file) => log[i].call = log[j].call

\* C30: whatever the retry_count of the configuration, a chat call that
\* passed normalization and has ended either returned a Response after at
\* least one provider invocation or raised the terminal error; it did not
\* return without a Response.
C30_CallEndsInResponseOrError ==
    (Caller.no > 0 /\ pc["t1"] = "idle" /\ Caller.outcome # "ValueError")
        => \/ Caller.outcome = "ok" /\ Len(Caller.provider) >= 1
           \/ Caller.outcome = "RuntimeError"

====
